---- MODULE Spec2Model ----
(***************************************************************************)
(* Duo OIDC (WebSDK v4) two-factor flow of src/api/core/two_factor/       *)
(* duo_oidc.rs: get_duo_auth_url ("begin"), validate_duo_login            *)
(* ("complete"), extract_context and purge_duo_contexts ("sweep"), with   *)
(* the request tasks split at their await points so that store accesses   *)
(* of concurrent tasks interleave.                                        *)
(*                                                                         *)
(* Strings are sequences of one-character strings, so that splitting and  *)
(* lower-casing are computed character by character.                      *)
(***************************************************************************)
EXTENDS Integers, Sequences, FiniteSets, TLC

(***************************************************************************)
(* Program constants                                                       *)
(***************************************************************************)
MIN_STATE_SIZE == 16
MAX_STATE_SIZE == 1024
STATE_LENGTH == 36
JWT_VALIDITY_SECS == 300
CTX_VALIDITY_SECS == 300

(***************************************************************************)
(* Bounds of the model                                                     *)
(***************************************************************************)
\* how many times the clock may advance in a behaviour
MaxTicks == 2
\* how many contexts may be saved in a behaviour
MaxSaves == 1

Procs == {"t1", "t2"}

\* the steps by which the clock advances: a context saved at one instant is
\* looked at before, at and after its expiry
TickSteps == {CTX_VALIDITY_SECS}

(***************************************************************************)
(* Strings                                                                 *)
(***************************************************************************)
\* the characters of STATE_CHAR_POOL that the model's random source draws
PoolSample == {"s", "t"}

STATE_CHAR_POOL ==
    {"0", "1", "2", "3", "4", "5", "6", "7", "8", "9",
     "A", "B", "C", "D", "E", "F", "G", "H", "I", "J", "K", "L", "M",
     "N", "O", "P", "Q", "R", "S", "T", "U", "V", "W", "X", "Y", "Z",
     "a", "b", "c", "d", "e", "f", "g", "h", "i", "j", "k", "l", "m",
     "n", "o", "p", "q", "r", "s", "t", "u", "v", "w", "x", "y", "z"}

\* a panic: a value no generated string equals
Panic == <<"panic">>

\* crypto::get_random_string(pool, size): the strings the random source may
\* return, here the ones made of one repeated character of the sample
get_random_string(pool, size) ==
    { [i \in 1..size |-> ch] : ch \in (pool \cap PoolSample) }

generate_state_len_Exclusive(size) ==
    IF (size <= MIN_STATE_SIZE) \/ (MAX_STATE_SIZE <= size)
    THEN {Panic}
    ELSE get_random_string(STATE_CHAR_POOL, size)

\* the set of values a call may produce; {Panic} when it panics
generate_state_len(size) ==
    IF (size < MIN_STATE_SIZE) \/ (MAX_STATE_SIZE < size)
    THEN {Panic}
    ELSE get_random_string(STATE_CHAR_POOL, size)

generate_state_default == generate_state_len(STATE_LENGTH)

\* str::to_lowercase over the letters the model's emails use
LowerChar(c) ==
    CASE c = "A" -> "a"
      [] c = "B" -> "b"
      [] OTHER -> c

to_lowercase(s) == [i \in 1..Len(s) |-> LowerChar(s[i])]

\* str::split('|'): the parts between separators, empty parts included
RECURSIVE SplitFrom(_, _, _)
RECURSIVE SplitOnce(_, _, _)
SplitFrom(s, i, cur) ==
    IF i > Len(s) THEN <<cur>>
    ELSE IF s[i] = "|" THEN <<cur>> \o SplitFrom(s, i + 1, <<>>)
    ELSE SplitFrom(s, i + 1, Append(cur, s[i]))

\* str::split_once-like: everything after the first separator is one part
SplitOnce(s, i, cur) ==
    IF i > Len(s) THEN <<cur>>
    ELSE IF s[i] = "|" THEN <<cur, SubSeq(s, i + 1, Len(s))>>
    ELSE SplitOnce(s, i + 1, Append(cur, s[i]))

split_AtFirst(s) == SplitOnce(s, 1, <<>>)

split(s) == SplitFrom(s, 1, <<>>)

\* crypto::ct_eq: constant-time equality of two strings
ct_eq(a, b) == a = b

\* the caller's "<code>|<state>" and its variants
RECURSIVE Join(_)
Join(parts) ==
    IF Len(parts) = 0 THEN <<>>
    ELSE IF Len(parts) = 1 THEN parts[1]
    ELSE parts[1] \o <<"|">> \o Join(Tail(parts))

Codes == {<<"c">>}
Emails == {<<"a">>, <<"A">>, <<"b">>}
\* the users that begin a flow
BeginEmails == {<<"a">>, <<"A">>}
StatePool == generate_state_default
TokenStates == StatePool \cup {<<>>}
TokenCodes == Codes \cup {<<>>}

\* combined tokens a caller may send: well-formed ones, ones with an empty
\* part, ones with no separator and ones with two separators
Tokens ==
    { Join(<<c, s>>) : c \in TokenCodes, s \in TokenStates }
    \cup { Join(<<c>>) : c \in TokenCodes }
    \cup { Join(<<c, s, <<>>>>) : c \in Codes, s \in StatePool }

(***************************************************************************)
(* Results and errors                                                      *)
(***************************************************************************)
NoEvent == "none"
UserFailedLogIn2fa == "UserFailedLogIn2fa"

Ok(v) == [ok |-> TRUE, val |-> v, msg |-> "", event |-> NoEvent]
\* err!(msg): an error with a message and no event
ErrPlain(m) == [ok |-> FALSE, val |-> <<>>, msg |-> m, event |-> NoEvent]
\* err!(msg, ErrorEvent { event: EventType::UserFailedLogIn2fa })
ErrEvent(m) == [ok |-> FALSE, val |-> <<>>, msg |-> m, event |-> UserFailedLogIn2fa]
\* a panic unwinds the task: the caller gets no error value and no event
Panicked == [ok |-> FALSE, val |-> <<>>, msg |-> "panic", event |-> NoEvent]

(***************************************************************************)
(* The verifier (Duo) as seen by DuoClient                                 *)
(***************************************************************************)
CLIENT_ID == "ik"
CLIENT_SECRET == "sk"
HEALTH_ENDPOINT == "https://host/oauth/v1/health_check"
TOKEN_ENDPOINT == "https://host/oauth/v1/token"

\* JSON bodies the health endpoint may answer with
HealthBodies ==
    { [stat |-> "OK", response |-> [timestamp |-> 1]],
      [stat |-> "DEGRADED", response |-> [timestamp |-> 1]],
      [stat |-> "FAIL", code |-> 40002, timestamp |-> 1,
       message |-> "invalid", message_detail |-> "client_id"],
      [stat |-> "OK", code |-> 0, timestamp |-> 1,
       message |-> "", message_detail |-> ""],
      [stat |-> "OK", code |-> 0, timestamp |-> 1,
       message |-> "", message_detail |-> "", response |-> [timestamp |-> 1]],
      [stat |-> "OK"],
      [error |-> "html"] }

\* what the network and the signer may do during one health_check
HealthEnvs ==
    { [sign |-> TRUE, send |-> "ok", body |-> b] : b \in HealthBodies }
    \cup { [sign |-> TRUE, send |-> "err", body |-> [error |-> "html"]],
           [sign |-> FALSE, send |-> "ok", body |-> [error |-> "html"]] }

\* serde(untagged) HealthCheckResponse: the first variant whose fields are
\* all present
DecodeHealth(body) ==
    IF {"stat", "response"} \subseteq DOMAIN body
       /\ "timestamp" \in DOMAIN body.response
    THEN [variant |-> "HealthOK", stat |-> body.stat]
    ELSE IF {"stat", "code", "timestamp", "message", "message_detail"}
              \subseteq DOMAIN body
    THEN [variant |-> "HealthFail", stat |-> body.stat]
    ELSE [variant |-> "undecodable", stat |-> ""]

health_check_AnyStat(env) ==
    IF ~env.sign THEN ErrPlain("jwt encode error")
    ELSE IF env.send # "ok" THEN ErrPlain("Error requesting Duo health check")
    ELSE LET response == DecodeHealth(env.body) IN
         IF response.variant = "undecodable"
         THEN ErrPlain("Duo health check response decode error")
         ELSE IF response.variant = "HealthFail"
         THEN ErrPlain("Duo health check FAIL response msg")
         ELSE Ok(<<>>)

health_check(env) ==
    IF ~env.sign THEN ErrPlain("jwt encode error")
    ELSE IF env.send # "ok" THEN ErrPlain("Error requesting Duo health check")
    ELSE LET response == DecodeHealth(env.body) IN
         IF response.variant = "undecodable"
         THEN ErrPlain("Duo health check response decode error")
         ELSE IF response.variant = "HealthFail"
         THEN ErrPlain("Duo health check FAIL response msg")
         ELSE IF response.stat # "OK"
         THEN ErrPlain("Duo health check returned OK-like body but did not contain an OK stat.")
         ELSE Ok(<<>>)

\* ID tokens the token endpoint may return: the claims, the header's
\* algorithm and the key that signed it; "garbage" has no parseable header
GoodToken(n, u) ==
    [alg |-> "HS512", key |-> CLIENT_SECRET, exp |-> "valid", aud |-> CLIENT_ID,
     iss |-> TOKEN_ENDPOINT, nonce |-> n, preferred_username |-> u]

GoodTokens == { GoodToken(n, u) : n \in StatePool, u \in Emails }

SampleToken == GoodToken(CHOOSE n \in StatePool : TRUE, <<"a">>)

IdTokens ==
    GoodTokens
    \cup { [SampleToken EXCEPT !.alg = a] : a \in {"HS256", "RS256"} }
    \cup { [SampleToken EXCEPT !.key = "other"] }
    \cup { [SampleToken EXCEPT !.exp = e] : e \in {"expired", "absent"} }
    \cup { [SampleToken EXCEPT !.aud = "other"] }
    \cup { [SampleToken EXCEPT !.iss = "other"] }

ExchangeEnvs ==
    { [sign |-> TRUE, send |-> "ok", status |-> 200, body |-> "json", id_token |-> <<t>>]
        : t \in IdTokens }
    \cup { [sign |-> TRUE, send |-> "ok", status |-> 200, body |-> "json", id_token |-> <<>>],
           [sign |-> TRUE, send |-> "ok", status |-> 200, body |-> "html", id_token |-> <<>>],
           [sign |-> TRUE, send |-> "ok", status |-> 403, body |-> "json", id_token |-> <<>>],
           [sign |-> TRUE, send |-> "err", status |-> 0, body |-> "html", id_token |-> <<>>],
           [sign |-> FALSE, send |-> "ok", status |-> 0, body |-> "html", id_token |-> <<>>] }

HmacAlgs == {"HS256", "HS384", "HS512"}

\* jsonwebtoken::decode under Validation::new(header.alg) with required
\* claims exp, aud, iss, the audience and the issuer set: the key is an HMAC
\* secret, so only an HMAC algorithm can verify
jwt_decode(t, alg, secret, audience, issuer) ==
    /\ alg \in HmacAlgs
    /\ t.alg = alg
    /\ t.key = secret
    /\ t.exp = "valid"
    /\ t.aud = audience
    /\ t.iss = issuer

\* DuoClient::exchange_authz_code_for_result; an id_token of <<>> stands
\* for a string that is no JWT, whose header cannot be decoded
exchange_authz_code_for_result(duo_code, duo_username, nonce, env) ==
    IF duo_code = <<>> THEN ErrPlain("Invalid Duo Code")
    ELSE IF ~env.sign THEN ErrPlain("jwt encode error")
    ELSE IF env.send # "ok" THEN ErrPlain("Error exchanging Duo code")
    ELSE IF env.status # 200 THEN ErrPlain("Failure response from Duo")
    ELSE IF env.body # "json" THEN ErrPlain("Error decoding ID token response")
    ELSE IF env.id_token = <<>> THEN Panicked
    ELSE LET t == env.id_token[1] IN
         IF ~jwt_decode(t, t.alg, CLIENT_SECRET, CLIENT_ID, TOKEN_ENDPOINT)
         THEN ErrPlain("Failed to decode Duo token")
         ELSE LET matching_nonces == ct_eq(nonce, t.nonce)
                  matching_usernames == ct_eq(duo_username, t.preferred_username)
              IN IF ~(matching_nonces /\ matching_usernames)
                 THEN ErrPlain("Error validating Duo user")
                 ELSE Ok(<<>>)

\* whether the exchange sends its request to the token endpoint
SendsTokenRequest(duo_code, env) == duo_code # <<>> /\ env.sign

(***************************************************************************)
(* State                                                                   *)
(***************************************************************************)
VARIABLES
    store,      \* the twofactor_duo_ctx table: a set of context records
    now,        \* Utc::now().timestamp()
    ticks,      \* how many times the clock advanced
    task,       \* each request task: its operation, position and locals
    saves,      \* how many contexts were saved so far
    succeeded,  \* the states for which a complete has returned success and
                \* under which no context was saved since
    gen         \* the last call of a function made on its own: the function,
                \* its input and what it returned

vars == <<store, now, ticks, task, saves, succeeded, gen>>

\* no function was called on its own yet
NoCall == [fn |-> "", arg |-> <<>>, out |-> <<>>]

\* a request task that runs no call
Idle ==
    [op |-> "idle", pc |-> "idle",
     arg_email |-> <<>>,   \* the email the caller passed
     arg_token |-> <<>>,   \* the combined token the caller passed
     email |-> <<>>, code |-> <<>>, state |-> <<>>, nonce |-> <<>>,
     ctx |-> <<>>,         \* the record find_by_state returned, if any
     result |-> <<>>,      \* the value returned to the caller, once done
     stage |-> "",         \* the step at which the call failed
     effects |-> <<>>,     \* the lookups, store accesses and requests made
     changed |-> FALSE,    \* whether the call added or removed a record
     checked |-> <<>>,     \* the clock at the call's context validation
     id_token |-> <<>>,    \* the ID token the call accepted, if any
     swept |-> FALSE,      \* whether a sweep ran beside this complete
     late |-> FALSE]       \* whether the state had already succeeded

\* the call returns `r`, having stopped at `stage`
Done(t, stage, r) == [t EXCEPT !.pc = "done", !.stage = stage, !.result = <<r>>]

\* the call did `e`: a lookup, a store access or a network request
Did(t, e) == [t EXCEPT !.effects = Append(@, e)]

(***************************************************************************)
(* The context store (TwoFactorDuoContext)                                 *)
(***************************************************************************)
\* find_by_state(state): the records stored under the state
find_by_state(state) == { r \in store : r.state = state }

\* delete(record): removes the row stored under the record's state
delete(record) == { r \in store : r.state # record.state }

\* save(state, user, nonce, ttl): the new row, expiring ttl seconds from now
NewContext(state, user_email, nonce, ttl) ==
    [state |-> state, user_email |-> user_email, nonce |-> nonce,
     exp |-> now + ttl]

SaveAccepts_AnyState(state, dbOk) == dbOk

\* save refuses a state that is already stored: the state is the unique key
SaveAccepts(state, dbOk) == dbOk /\ find_by_state(state) = {}

\* purge_expired_duo_contexts: bulk delete where the expiry is before now
purge_expired_duo_contexts == { r \in store : ~(r.exp < now) }

(***************************************************************************)
(* get_duo_auth_url ("begin")                                              *)
(***************************************************************************)
make_authz_req_url_Swapped(duo_username, state, nonce) ==
    [response_type |-> "code", client_id |-> CLIENT_ID,
     request |-> [response_type |-> "code", scope |-> "openid",
                  exp |-> now + JWT_VALIDITY_SECS,
                  client_id |-> CLIENT_ID, state |-> nonce,
                  duo_uname |-> duo_username, iss |-> CLIENT_ID,
                  nonce |-> state, use_duo_code_attribute |-> FALSE]]

\* the authorize URL: the query and the claims of its signed request
make_authz_req_url(duo_username, state, nonce) ==
    [response_type |-> "code", client_id |-> CLIENT_ID,
     request |-> [response_type |-> "code", scope |-> "openid",
                  exp |-> now + JWT_VALIDITY_SECS,
                  client_id |-> CLIENT_ID, state |-> state,
                  duo_uname |-> duo_username, iss |-> CLIENT_ID,
                  nonce |-> nonce, use_duo_code_attribute |-> FALSE]]

\* the errors get_duo_keys_email may return, passed on unchanged by `?`
KeysErrors == {ErrPlain("Can't fetch Duo Keys"), ErrEvent("Can't fetch Duo Keys")}

\* lines 455-462: resolve the credentials and build the callback URL
GetUrlStart(p, email) ==
    /\ task[p].op = "idle"
    /\ saves < MaxSaves
    /\ \E keys \in {<<>>} \cup {<<e>> : e \in KeysErrors}, cb \in BOOLEAN :
         LET t0 == Did([Idle EXCEPT !.op = "begin", !.arg_email = email,
                                    !.email = email], "keys") IN
         task' = [task EXCEPT ![p] =
                    IF keys # <<>> THEN Done(t0, "keys", keys[1])
                    ELSE IF ~cb THEN Done(t0, "callback", ErrPlain("callback url"))
                    ELSE [t0 EXCEPT !.pc = "health"]]
    /\ UNCHANGED <<store, now, ticks, saves, succeeded, gen>>

\* match client.health_check().await: go on to `next` when the check
\* succeeded, return its error otherwise
HealthGate_Ignored(t, r, next) == [t EXCEPT !.pc = next]

HealthGate(t, r, next) ==
    IF r.ok THEN [t EXCEPT !.pc = next]
    ELSE Done(t, "health", ErrPlain(r.msg))

\* lines 464-467: the health check
GetUrlHealth(p) ==
    /\ task[p].op = "begin" /\ task[p].pc = "health"
    /\ \E env \in HealthEnvs :
         LET r == health_check(env)
             t1 == Did(task[p], IF r.ok THEN "health_ok" ELSE "health_err") IN
         task' = [task EXCEPT ![p] = HealthGate(t1, r, "save")]
    /\ UNCHANGED <<store, now, ticks, saves, succeeded, gen>>

\* lines 469-476: generate state and nonce, save the context, build the URL
GetUrlSave(p) ==
    /\ task[p].op = "begin" /\ task[p].pc = "save"
    /\ \E state \in generate_state_default, nonce \in generate_state_default,
          dbOk \in BOOLEAN, sign \in BOOLEAN :
         LET t == task[p]
             t1 == [Did(t, "save") EXCEPT !.state = state, !.nonce = nonce]
             t2 == [Did(t1, "saved") EXCEPT !.changed = TRUE] IN
         IF SaveAccepts(state, dbOk)
         THEN /\ store' = store \cup {NewContext(state, t.email, nonce, CTX_VALIDITY_SECS)}
              /\ saves' = saves + 1
              /\ succeeded' = succeeded \ {state}
              /\ task' = [task EXCEPT ![p] =
                            IF sign
                            THEN Done(t2, "", Ok(<<make_authz_req_url(t.email, state, nonce)>>))
                            ELSE Done(t2, "url", ErrPlain("jwt encode error"))]
         ELSE /\ task' = [task EXCEPT ![p] =
                            Done(t1, "save", ErrPlain("Error storing Duo authentication context"))]
              /\ UNCHANGED <<store, saves, succeeded>>
    /\ UNCHANGED <<now, ticks, gen>>

(***************************************************************************)
(* validate_duo_login ("complete") and extract_context                     *)
(***************************************************************************)
GenericError == ErrEvent("Error validating duo authentication")

\* lines 485-498: lower-case the email and split the combined token
ValidateStart(p, email, two_factor_token) ==
    /\ task[p].op = "idle"
    /\ LET lower == to_lowercase(email)
           parts == split(two_factor_token)
           t0 == [Idle EXCEPT !.op = "complete", !.arg_email = email,
                              !.arg_token = two_factor_token, !.email = lower] IN
       task' = [task EXCEPT ![p] =
                  IF Len(parts) # 2
                  THEN Done(t0, "shape", ErrEvent("Invalid response length"))
                  ELSE [t0 EXCEPT !.pc = "keys", !.code = parts[1], !.state = parts[2],
                                  !.late = parts[2] \in succeeded]]
    /\ UNCHANGED <<store, now, ticks, saves, succeeded, gen>>

\* lines 500-505: resolve the credentials and build the callback URL
ValidateKeys(p) ==
    /\ task[p].op = "complete" /\ task[p].pc = "keys"
    /\ \E keys \in {<<>>} \cup {<<e>> : e \in KeysErrors}, cb \in BOOLEAN :
         LET t0 == Did(task[p], "keys") IN
         task' = [task EXCEPT ![p] =
                    IF keys # <<>> THEN Done(t0, "keys", keys[1])
                    ELSE IF ~cb THEN Done(t0, "callback", ErrPlain("callback url"))
                    ELSE [t0 EXCEPT !.pc = "find"]]
    /\ UNCHANGED <<store, now, ticks, saves, succeeded, gen>>

\* line 391-394: look the state up in the store
ExtractFind(p) ==
    /\ task[p].op = "complete" /\ task[p].pc = "find"
    /\ LET t0 == Did(task[p], "find") IN
       \/ /\ find_by_state(task[p].state) = {}
          /\ task' = [task EXCEPT ![p] = Done(t0, "context", GenericError)]
       \/ \E c \in find_by_state(task[p].state) :
            task' = [task EXCEPT ![p] = [t0 EXCEPT !.pc = "expiry", !.ctx = <<c>>]]
    /\ UNCHANGED <<store, now, ticks, saves, succeeded, gen>>

\* line 396: the expiry check of extract_context reads the clock
ExtractExpiry(p) ==
    /\ task[p].op = "complete" /\ task[p].pc = "expiry"
    /\ task' = [task EXCEPT ![p].pc =
                  IF task[p].ctx[1].exp < now THEN "delete_expired" ELSE "delete"]
    /\ UNCHANGED <<store, now, ticks, saves, succeeded, gen>>

DeleteOk_Never(record, dbOk) == store

\* what ctx.delete(conn).await.ok() leaves in the store: the error of a
\* failed delete is dropped
DeleteOk(record, dbOk) == IF dbOk THEN delete(record) ELSE store

ExtractDelete_Propagates(p) ==
    /\ task[p].op = "complete" /\ task[p].pc \in {"delete_expired", "delete"}
    /\ \E dbOk \in BOOLEAN :
         LET t0 == [Did(task[p], IF dbOk THEN "delete" ELSE "delete_err")
                      EXCEPT !.changed = (store' # store)] IN
         /\ store' = DeleteOk(task[p].ctx[1], dbOk)
         /\ task' = [task EXCEPT ![p] =
                       IF ~dbOk
                       THEN Done(t0, "context", ErrPlain("Error deleting context"))
                       ELSE IF task[p].pc = "delete_expired"
                       THEN Done(t0, "context", GenericError)
                       ELSE [t0 EXCEPT !.pc = "binding"]]
    /\ UNCHANGED <<now, ticks, saves, succeeded, gen>>

\* lines 397-398 and 411-412: delete the record, whatever the delete returns
ExtractDelete(p) ==
    /\ task[p].op = "complete" /\ task[p].pc \in {"delete_expired", "delete"}
    /\ \E dbOk \in BOOLEAN :
         LET t0 == [Did(task[p], IF dbOk THEN "delete" ELSE "delete_err")
                      EXCEPT !.changed = (store' # store)] IN
         /\ store' = DeleteOk(task[p].ctx[1], dbOk)
         /\ task' = [task EXCEPT ![p] =
                       IF task[p].pc = "delete_expired"
                       THEN Done(t0, "context", GenericError)
                       ELSE [t0 EXCEPT !.pc = "binding"]]
    /\ UNCHANGED <<now, ticks, saves, succeeded, gen>>

ContextValid_AnyUser(email, state, ctx) ==
    ct_eq(state, ctx.state) /\ ctx.exp > now

\* lines 521-535: the context must be bound to the user and the state, and
\* must not have expired
ContextValid(email, state, ctx) ==
    LET matching_usernames == ct_eq(email, ctx.user_email)
        matching_states == ct_eq(state, ctx.state)
        unexpired_context == ctx.exp > now
    IN matching_usernames /\ matching_states /\ unexpired_context

ValidateBinding(p) ==
    /\ task[p].op = "complete" /\ task[p].pc = "binding"
    /\ LET t0 == [task[p] EXCEPT !.checked = <<now>>] IN
       task' = [task EXCEPT ![p] =
                  IF ~ContextValid(t0.email, t0.state, t0.ctx[1])
                  THEN Done(t0, "binding", GenericError)
                  ELSE [t0 EXCEPT !.pc = "health"]]
    /\ UNCHANGED <<store, now, ticks, saves, succeeded, gen>>

\* lines 537-542: the health check; its error is returned as it is
ValidateHealth(p) ==
    /\ task[p].op = "complete" /\ task[p].pc = "health"
    /\ \E env \in HealthEnvs :
         LET r == health_check(env)
             t1 == Did(task[p], IF r.ok THEN "health_ok" ELSE "health_err") IN
         task' = [task EXCEPT ![p] = HealthGate(t1, r, "exchange")]
    /\ UNCHANGED <<store, now, ticks, saves, succeeded, gen>>

ExchangeResult_NoEvent(r) ==
    IF r.ok THEN Ok(<<>>) ELSE IF r = Panicked THEN Panicked
    ELSE ErrPlain("Error validating duo authentication")

ExchangeResult_Leaky(r) ==
    IF r.ok THEN Ok(<<>>) ELSE IF r = Panicked THEN Panicked ELSE ErrEvent(r.msg)

\* lines 544-554: the result of the exchange as validate_duo_login returns it
ExchangeResult(r) ==
    IF r.ok THEN Ok(<<>>)
    ELSE IF r = Panicked THEN Panicked
    ELSE GenericError

ValidateExchange(p) ==
    /\ task[p].op = "complete" /\ task[p].pc = "exchange"
    /\ \E env \in ExchangeEnvs :
         LET t == task[p]
             r == exchange_authz_code_for_result(t.code, t.email, t.ctx[1].nonce, env)
             t0 == IF SendsTokenRequest(t.code, env) THEN Did(t, "token_request") ELSE t
             t1 == IF r.ok THEN [t0 EXCEPT !.id_token = env.id_token] ELSE t0 IN
         task' = [task EXCEPT ![p] = Done(t1, IF r.ok THEN "" ELSE "exchange", ExchangeResult(r))]
    /\ UNCHANGED <<store, now, ticks, saves, succeeded, gen>>

(***************************************************************************)
(* The caller takes the result; the sweep; the clock                       *)
(***************************************************************************)
Return(p) ==
    /\ task[p].pc = "done"
    /\ succeeded' = IF task[p].op = "complete" /\ task[p].result[1].ok
                    THEN succeeded \cup {task[p].state} ELSE succeeded
    /\ task' = [task EXCEPT ![p] = Idle]
    /\ UNCHANGED <<store, now, ticks, saves, gen>>

PurgeDuoContexts_NoPurge ==
    /\ \E conn \in BOOLEAN :
         /\ store' = store
         /\ task' = [p \in Procs |->
                       IF conn /\ task[p].op = "complete"
                       THEN [task[p] EXCEPT !.swept = TRUE] ELSE task[p]]
    /\ UNCHANGED <<now, ticks, saves, succeeded, gen>>

\* purge_duo_contexts: bulk delete of the expired contexts, or nothing when
\* no connection could be had
PurgeDuoContexts ==
    /\ \E conn \in BOOLEAN :
         /\ store' = IF conn THEN purge_expired_duo_contexts ELSE store
         /\ task' = [p \in Procs |->
                       IF conn /\ task[p].op = "complete"
                       THEN [task[p] EXCEPT !.swept = TRUE] ELSE task[p]]
    /\ UNCHANGED <<now, ticks, saves, succeeded, gen>>

Tick ==
    /\ ticks < MaxTicks
    /\ \E d \in TickSteps : now' = now + d
    /\ ticks' = ticks + 1
    /\ UNCHANGED <<store, task, saves, succeeded, gen>>

Init ==
    /\ store = {}
    /\ now = 0
    /\ ticks = 0
    /\ task = [p \in Procs |-> Idle]
    /\ saves = 0
    /\ succeeded = {}
    /\ gen = NoCall

\* the steps of one request task running get_duo_auth_url
GetUrlStep(p) ==
    \/ \E email \in BeginEmails : GetUrlStart(p, email)
    \/ GetUrlHealth(p)
    \/ GetUrlSave(p)

\* the steps of one request task running validate_duo_login
ValidateStep(p) ==
    \/ \E email \in Emails, token \in Tokens : ValidateStart(p, email, token)
    \/ ValidateKeys(p)
    \/ ExtractFind(p)
    \/ ExtractExpiry(p)
    \/ ExtractDelete(p)
    \/ ValidateBinding(p)
    \/ ValidateHealth(p)
    \/ ValidateExchange(p)

\* one request task at a time, with the sweep and the clock running beside it
Next ==
    \/ GetUrlStep("t1")
    \/ ValidateStep("t1")
    \/ Return("t1")
    \/ PurgeDuoContexts
    \/ Tick

Spec == Init /\ [][Next]_vars

\* a context saved by a begin for user "a", not yet expired
LiveContext ==
    [state |-> CHOOSE x \in StatePool : TRUE, user_email |-> <<"a">>,
     nonce |-> CHOOSE x \in StatePool : TRUE, exp |-> CTX_VALIDITY_SECS]

InitRace ==
    /\ store = {LiveContext}
    /\ now = 0
    /\ ticks = 0
    /\ task = [p \in Procs |-> Idle]
    /\ saves = 1
    /\ succeeded = {}
    /\ gen = NoCall

\* two request tasks running validate_duo_login concurrently
NextRace ==
    \/ \E p \in Procs : ValidateStep(p)
    \/ \E p \in Procs : Return(p)

SpecRace == InitRace /\ [][NextRace]_vars

\* two request tasks running get_duo_auth_url concurrently, with the sweep
\* and the clock beside them
NextStore ==
    \/ \E p \in Procs : GetUrlStep(p)
    \/ \E p \in Procs : Return(p)
    \/ PurgeDuoContexts
    \/ Tick

SpecStore == Init /\ [][NextStore]_vars

\* the clock as it is read while a context has yet to expire: it never
\* stops before the context has expired
TickOn ==
    /\ \E r \in store : ~(r.exp < now)
    /\ \E d \in TickSteps : now' = now + d
    /\ UNCHANGED <<store, ticks, task, saves, succeeded, gen>>

\* the combined tokens of user agents that come back from Duo
CallbackTokens == { Join(<<c, s>>) : c \in Codes, s \in StatePool }

\* the steps of one request task running validate_duo_login for user "a"
\* with such a token
ValidateCallbackStep(p) ==
    \/ \E token \in CallbackTokens : ValidateStart(p, <<"a">>, token)
    \/ ValidateKeys(p)
    \/ ExtractFind(p)
    \/ ExtractExpiry(p)
    \/ ExtractDelete(p)
    \/ ValidateBinding(p)
    \/ ValidateHealth(p)
    \/ ValidateExchange(p)

NextLive ==
    \/ GetUrlStep("t1")
    \/ ValidateCallbackStep("t1")
    \/ Return("t1")
    \/ PurgeDuoContexts
    \/ TickOn

\* the job scheduler runs the sweep again and again, the sweep gets a
\* connection in the end, and time passes
SpecLive ==
    Init /\ [][NextLive]_vars /\ WF_vars(PurgeDuoContexts) /\ WF_vars(TickOn)

(***************************************************************************)
(* The functions called on their own                                       *)
(***************************************************************************)
MaxSmallSize == 64

\* the sizes generate_state_len is called with: the small ones and the
\* ones around MAX_STATE_SIZE
StateSizes ==
    (0..MaxSmallSize) \cup ((MAX_STATE_SIZE - 1)..(MAX_STATE_SIZE + 1))

\* what the signer and the network may do during a health_check, in every
\* combination
HealthCases == [sign : BOOLEAN, send : {"ok", "err"}, body : HealthBodies]

CallGenerateStateLen(size) ==
    /\ \E s \in generate_state_len(size) :
         gen' = [fn |-> "generate_state_len", arg |-> <<size>>, out |-> <<s>>]
    /\ UNCHANGED <<store, now, ticks, task, saves, succeeded>>

CallGenerateStateDefault ==
    /\ \E s \in generate_state_default :
         gen' = [fn |-> "generate_state_default", arg |-> <<>>, out |-> <<s>>]
    /\ UNCHANGED <<store, now, ticks, task, saves, succeeded>>

CallHealthCheck(env) ==
    /\ gen' = [fn |-> "health_check", arg |-> <<env>>,
               out |-> <<health_check(env)>>]
    /\ UNCHANGED <<store, now, ticks, task, saves, succeeded>>

NextPure ==
    \/ \E size \in StateSizes : CallGenerateStateLen(size)
    \/ CallGenerateStateDefault
    \/ \E env \in HealthCases : CallHealthCheck(env)

SpecPure == Init /\ [][NextPure]_vars

(***************************************************************************)
(* Properties                                                              *)
(***************************************************************************)
DoneCall(p, op) == task[p].op = op /\ task[p].pc = "done"
Res(p) == task[p].result[1]
Has(t, e) == \E i \in DOMAIN t.effects : t.effects[i] = e
SepCount(s) == Cardinality({i \in 1..Len(s) : s[i] = "|"})

\* C1: single use of a context: once a complete carrying state S has
\* returned success, every complete started later with the same S fails
\* (no context having been saved under S again in between).
C1_SingleUse ==
    \A p \in Procs :
        DoneCall(p, "complete") /\ task[p].late => ~Res(p).ok

\* C2: complete returns success only if the token has exactly one
\* separator and is code|state, a context was stored under that state, the
\* context is bound to the lower-cased supplied email, it was unexpired at
\* the call's validation, the health check of the call succeeded, and the
\* accepted ID token is signed with the shared secret and carries the
\* context's nonce and the lower-cased supplied email.
C2_SuccessOnlyIf ==
    \A p \in Procs :
        DoneCall(p, "complete") /\ Res(p).ok =>
            LET t == task[p] IN
            /\ SepCount(t.arg_token) = 1
            /\ t.arg_token = t.code \o <<"|">> \o t.state
            /\ t.ctx # <<>>
            /\ t.ctx[1].state = t.state
            /\ t.ctx[1].user_email = to_lowercase(t.arg_email)
            /\ t.checked # <<>>
            /\ t.checked[1] < t.ctx[1].exp
            /\ Has(t, "health_ok")
            /\ t.id_token # <<>>
            /\ t.id_token[1].key = CLIENT_SECRET
            /\ t.id_token[1].alg \in HmacAlgs
            /\ t.id_token[1].nonce = t.ctx[1].nonce
            /\ t.id_token[1].preferred_username = to_lowercase(t.arg_email)

C2_Witness ==
    \E p \in Procs : DoneCall(p, "complete") /\ Res(p).ok

\* C3: consume on read: a record that complete looked up in the store is
\* absent from the store when complete returns, whether it was expired,
\* bound to another user or valid, and whether complete succeeds or fails.
C3_ConsumeOnRead ==
    \A p \in Procs :
        DoneCall(p, "complete") /\ task[p].ctx # <<>> => task[p].ctx[1] \notin store

\* C4: of two concurrent complete calls carrying the same state, at most
\* one obtains the context from the store (here: even when every delete
\* succeeds).
Obtained(p) ==
    /\ task[p].op = "complete"
    /\ task[p].ctx # <<>>
    /\ task[p].pc \in {"binding", "health", "exchange", "done"}
    /\ task[p].stage # "context"

C4_ReadOnce ==
    \A p, q \in Procs :
        (p # q /\ Obtained(p) /\ Obtained(q) /\ task[p].state = task[q].state)
            => (Has(task[p], "delete_err") \/ Has(task[q], "delete_err"))

UniformFailure(p) ==
    /\ DoneCall(p, "complete")
    /\ ~Res(p).ok
    /\ task[p].stage \in {"context", "binding", "exchange"}
    /\ Res(p) # Panicked

C7_HealthCheckFirst ==
    \A p \in Procs :
        \A i \in DOMAIN task[p].effects :
            task[p].effects[i] \in {"save", "saved", "token_request"} =>
                /\ \E j \in 1..(i - 1) : task[p].effects[j] = "health_ok"
                /\ \A j \in 1..(i - 1) : task[p].effects[j] # "health_err"

C7_Witness ==
    \E p \in Procs : DoneCall(p, "complete") /\ Has(task[p], "token_request")

\* C8 (as claimed): a begin or a complete aborted by a failing health check
\* has not changed the context store.
C8_HealthFailureChangesNothing ==
    \A p \in Procs :
        task[p].pc = "done" /\ task[p].stage = "health" => ~task[p].changed

\* C8 (amended): a begin aborted by a failing health check has not touched
\* the context store; a complete aborted by a failing health check has
\* already consumed the context it looked up: its only store accesses are
\* the lookup and the delete, both before the health check, and the record
\* is gone from the store whenever that delete succeeded.
C8_HealthFailureAfterConsume ==
    \A p \in Procs :
        task[p].pc = "done" /\ task[p].stage = "health" =>
            LET t == task[p] IN
            /\ t.op = "begin" => ~t.changed /\ t.effects = <<"keys", "health_err">>
            /\ t.op = "complete" =>
                 /\ t.ctx # <<>>
                 /\ \E d \in {"delete", "delete_err"} :
                      t.effects = <<"keys", "find", d, "health_err">>
                 /\ Has(t, "delete") => t.ctx[1] \notin store
                 /\ t.changed => Has(t, "delete")

C8_Witness ==
    \E p \in Procs :
        /\ DoneCall(p, "complete") /\ task[p].stage = "health"
        /\ task[p].changed /\ task[p].ctx[1] \notin store

\* C9: a sweep racing with a complete is unobservable: the sweep removes
\* only records that complete would reject as expired, and the record that
\* complete looked up is absent from the store once the complete and a
\* sweep that ran beside it have both finished.
SweepStep == \E p \in Procs : ~task[p].swept /\ task'[p].swept

C9_SweepRaceUnobservable ==
    /\ [][SweepStep => \A r \in store \ store' : r.exp < now]_vars
    /\ [](\A p \in Procs :
             DoneCall(p, "complete") /\ task[p].ctx # <<>> /\ task[p].swept
                 => find_by_state(task[p].ctx[1].state) = {})

\* C10: a combined token with no or with more than one separator is
\* rejected before any credential lookup, store access or network request;
\* a token with an empty code or an empty state is rejected too.
C10_TokenShape ==
    \A p \in Procs :
        DoneCall(p, "complete") =>
            LET t == task[p]
                n == SepCount(t.arg_token) IN
            /\ n # 1 => ~Res(p).ok /\ t.effects = <<>> /\ t.stage = "shape"
            /\ n = 1 /\ (t.arg_token[1] = "|" \/ t.arg_token[Len(t.arg_token)] = "|")
                 => ~Res(p).ok
            /\ n = 1 /\ t.arg_token[1] = "|" => ~Has(t, "token_request")

C10_Witness ==
    \E p \in Procs :
        /\ DoneCall(p, "complete") /\ task[p].stage = "exchange"
        /\ task[p].arg_token[1] = "|"
        /\ Has(task[p], "health_ok")

\* C11: an ID token is accepted only if its signature algorithm is HS512:
\* every complete that returned success accepted an ID token whose header
\* names HS512, so a token naming another algorithm is rejected although
\* its key, audience, issuer, nonce and username match.
C11_AlgorithmPinned ==
    \A p \in Procs :
        DoneCall(p, "complete") /\ Res(p).ok
            => task[p].id_token # <<>> /\ task[p].id_token[1].alg = "HS512"

\* C12: the user identifier is a case-insensitive email: a complete that
\* obtained an unexpired context saved by a begin whose email differs from
\* the supplied email only in the case of its letters passes the user
\* binding check.
C12_CaseInsensitiveEmail ==
    \A p \in Procs :
        DoneCall(p, "complete") /\ task[p].checked # <<>> =>
            LET t == task[p] IN
            /\ to_lowercase(t.ctx[1].user_email) = to_lowercase(t.arg_email)
            /\ t.ctx[1].state = t.state
            /\ t.checked[1] < t.ctx[1].exp
            => t.stage # "binding"

\* C14: generate_state_len(L) returns a string of exactly L characters, each
\* from the 62-character alphanumeric pool, when 16 <= L <= 1024, and
\* panics for every other L (15 and 1025 among them);
\* generate_state_default returns a string of length 36 over the pool.
C14_StateLength ==
    /\ gen.fn = "generate_state_len" =>
         LET L == gen.arg[1]
             s == gen.out[1] IN
         IF 16 <= L /\ L <= 1024
         THEN /\ s # Panic
              /\ Len(s) = L
              /\ \A i \in 1..L : s[i] \in STATE_CHAR_POOL
         ELSE s = Panic
    /\ gen.fn = "generate_state_default" =>
         LET s == gen.out[1] IN
         /\ s # Panic
         /\ Len(s) = 36
         /\ \A i \in 1..36 : s[i] \in STATE_CHAR_POOL
    /\ Cardinality(STATE_CHAR_POOL) = 62

C14_Witness ==
    /\ gen.fn = "generate_state_len"
    /\ gen.arg[1] = 1024
    /\ Len(gen.out[1]) = 1024

\* C20: health_check returns success if and only if the request was signed
\* and sent without a transport error, the body decodes as the OK variant (a
\* stat and a response object holding a timestamp) and its stat is "OK"; a
\* FAIL-variant body, an OK-variant body with another stat, an undecodable
\* body, a transport error and a signing error each give an error.
C20_HealthCheckIff ==
    gen.fn = "health_check" =>
        LET env == gen.arg[1]
            body == env.body
            okVariant == /\ "stat" \in DOMAIN body
                         /\ "response" \in DOMAIN body
                         /\ "timestamp" \in DOMAIN body.response IN
        gen.out[1].ok <=>
            env.sign /\ env.send = "ok" /\ okVariant /\ body.stat = "OK"

C20_Witness ==
    /\ gen.fn = "health_check"
    /\ gen.out[1].ok
    /\ "message" \in DOMAIN gen.arg[1].body

\* C15: a begin that returns a URL adds exactly one record to the store:
\* its state and nonce are the state and nonce of the signed request in the
\* returned URL, it is bound to the email passed to begin, and the
\* username hint of the URL is that email; the begin adds, changes or
\* removes no other record.
C15_BeginAddsOneContext ==
    [][\A p \in Procs :
         /\ task[p].op = "begin" /\ task[p].pc # "done"
         /\ task'[p].pc = "done" /\ task'[p].result[1].ok
         => LET url == task'[p].result[1].val[1]
                added == store' \ store IN
            /\ store \subseteq store'
            /\ Cardinality(added) = 1
            /\ \A r \in added :
                 /\ r.state = url.request.state
                 /\ r.nonce = url.request.nonce
                 /\ r.user_email = task[p].arg_email
                 /\ DOMAIN r = {"state", "user_email", "nonce", "exp"}
            /\ url.request.duo_uname = task[p].arg_email]_vars

C15_Witness ==
    \E p \in Procs :
        /\ DoneCall(p, "begin") /\ Res(p).ok
        /\ task[p].arg_email = <<"A">>
        /\ \E r \in store :
             /\ r.state = Res(p).val[1].request.state
             /\ r.state # r.nonce
        /\ Cardinality(store) = 2

\* C13: in every reachable state of the store no two records share a state
\* and every record has its four fields (state, user, nonce, expires_at)
\* set; a begin whose save fails or collides leaves the store as it was: no
\* partial record and no second record under a state already in use.
C13_StoreInvariant ==
    /\ [](/\ \A r1, r2 \in store : r1.state = r2.state => r1 = r2
          /\ \A r \in store :
               /\ DOMAIN r = {"state", "user_email", "nonce", "exp"}
               /\ r.state \in StatePool
               /\ r.user_email \in BeginEmails
               /\ r.nonce \in StatePool
               /\ r.exp \in Nat)
    /\ [][\A p \in Procs :
            /\ task[p].op = "begin" /\ task[p].pc # "done"
            /\ task'[p].pc = "done" /\ task'[p].stage = "save"
            => store' = store]_vars

C13_Witness ==
    \E p \in Procs :
        /\ DoneCall(p, "begin") /\ task[p].stage = "save"
        /\ \E r \in store : r.state = task[p].state /\ r.nonce # task[p].nonce

\* C16: expiry is strict and checked by complete itself: a complete succeeds
\* only if the time was before the context's expires_at at its checks; a
\* context whose expires_at is at or before the current time is rejected
\* and is deleted from the store all the same, whether or not a sweep ran.
C16_ExpiryStrict ==
    \A p \in Procs :
        DoneCall(p, "complete") /\ task[p].ctx # <<>> =>
            LET t == task[p]
                expired == \/ t.stage = "context"
                           \/ t.checked # <<>> /\ t.checked[1] >= t.ctx[1].exp IN
            /\ Res(p).ok => t.checked # <<>> /\ t.checked[1] < t.ctx[1].exp
            /\ expired => ~Res(p).ok /\ t.ctx[1] \notin store

\* C17: whenever begin returns an error (credential resolution, callback
\* URL, health check, persistence, or construction and signing of the
\* authorize URL) it has left the store unchanged: a begin has put a context
\* in the store only if it returned a URL.
C17_BeginErrorLeavesStore ==
    \A p \in Procs :
        DoneCall(p, "begin") /\ ~Res(p).ok
            => ~task[p].changed /\ ~Has(task[p], "saved")

\* C18: a failure of the delete in the consume step never changes the
\* authentication decision: whether the delete succeeds or returns an
\* error, the call goes on in the same way with the same context (to the
\* generic rejection when the context was found expired, to the binding
\* check otherwise), and the delete error is never returned.
C18_DeleteErrorIgnored ==
    [][\A p \in Procs :
         /\ task[p].op = "complete"
         /\ task[p].pc \in {"delete_expired", "delete"}
         /\ task'[p].pc # task[p].pc
         => LET Decision(t) == [t EXCEPT !.effects = <<>>, !.changed = FALSE]
                t == task[p] IN
            Decision(task'[p]) =
                Decision(IF t.pc = "delete_expired"
                         THEN [t EXCEPT !.pc = "done", !.stage = "context",
                                        !.result = <<GenericError>>]
                         ELSE [t EXCEPT !.pc = "binding"])]_vars

C18_Witness ==
    \E p \in Procs :
        /\ DoneCall(p, "complete") /\ Res(p).ok
        /\ Has(task[p], "delete_err")

\* C19: under fair scheduling of the sweep and advancing time, every context
\* created by begin is eventually absent from the store (removed by a
\* complete that read it or by a sweep after its expiry): a state under
\* which a context is stored is free again later.
C19_ContextEventuallyGone ==
    \A s \in StatePool : (find_by_state(s) # {}) ~> (find_by_state(s) = {})

C19_Witness ==
    /\ store = {}
    /\ saves > 0
    /\ \A p \in Procs : ~Has(task[p], "delete")
    /\ now > CTX_VALIDITY_SECS

====
